---- MODULE Spec2Model ----
(***************************************************************************)
(* The prediction and history endpoints of backend/server.py, with the     *)
(* prediction_history table of backend/database_models.py.                 *)
(*                                                                         *)
(* Each Flask view function is one action.  The table is the sequence      *)
(* `store` in insertion order; `last` is the response the server gave to   *)
(* the latest request together with the outbound calls that request made;  *)
(* `clock` is the latest value datetime.utcnow has returned.               *)
(***************************************************************************)
EXTENDS Integers, Sequences, FiniteSets

VARIABLES openai_client, store, clock, last

vars == <<openai_client, store, clock, last>>

(* ------------------------------ bounds --------------------------------- *)

MaxRecords == 2
MaxClock == 2
MaxPredictions == 2

(* ------------------------- optional values ----------------------------- *)

None == [some |-> FALSE]
Some(v) == [some |-> TRUE, val |-> v]

(* ------------------------------ inputs --------------------------------- *)

\* Uploaded images, by what Pillow makes of them.
Images == {"photo", "rgba_png", "corrupt"}

\* request.files of a POST /predict.
Uploads ==
    {[hasFile |-> FALSE, filename |-> "", data |-> "photo"],
     [hasFile |-> TRUE, filename |-> "", data |-> "photo"]}
    \cup [hasFile : {TRUE}, filename : {"item.jpg"}, data : Images]

\* Entries of the "predictions" array, probabilities in percent: two tags
\* that tie at the top and one that ranks below them.
Prediction ==
    {[tagName |-> "plastic_bottle", probability |-> 91],
     [tagName |-> "glass", probability |-> 91],
     [tagName |-> "paper", probability |-> 50]}

\* The sequences of at most n elements of S, each element at most once (the
\* service reports a tag once).
RECURSIVE SeqsUpTo(_, _)
SeqsUpTo(S, n) ==
    IF n = 0 THEN {<< >>}
    ELSE LET shorter == SeqsUpTo(S, n - 1)
             longest == {t \in shorter : Len(t) = n - 1}
             fresh == {tx \in longest \X S :
                         \A i \in 1..Len(tx[1]) : tx[1][i].tagName # tx[2].tagName}
         IN  shorter \cup {Append(tx[1], tx[2]) : tx \in fresh}

\* Bodies the Custom Vision endpoint can answer with on a 2xx.
VisionResults ==
    {[hasPredictions |-> FALSE, predictions |-> << >>]}
    \cup [hasPredictions : {TRUE}, predictions : SeqsUpTo(Prediction, MaxPredictions)]

\* Outcomes of requests.post / raise_for_status / response.json.
VisionOutcomes ==
    {[kind |-> k, results |-> [hasPredictions |-> FALSE, predictions |-> << >>]] :
        k \in {"transport", "http_error", "bad_json"}}
    \cup [kind : {"ok"}, results : VisionResults]

\* request.get_json() of a POST /predict-text: null, or an object.
EmptyObject == [k \in {} |-> ""]
JsonBodies ==
    {[isNull |-> TRUE, obj |-> EmptyObject]}
    \cup {[isNull |-> FALSE, obj |-> o] :
            o \in {EmptyObject,
                   [text |-> "banana peel"],
                   [description |-> ""],
                   [description |-> "banana peel"]}}

\* Outcomes of chat.completions.create followed by json.loads.
ChatOutcomes ==
    {[kind |-> k, result_data |-> EmptyObject] : k \in {"transport", "bad_json"}}
    \cup {[kind |-> "ok", result_data |-> o] :
            o \in {[category |-> "compostable", item |-> "banana peel"],
                   [category |-> "landfill"]}}

(* ------------------------------ helpers -------------------------------- *)

\* dict.get(key) of a JSON object.
Get(obj, key) == IF key \in DOMAIN obj THEN Some(obj[key]) ELSE None

\* A maximum whose running best is replaced by an equal key too.
RECURSIVE MaxLoopLast(_, _, _)
MaxLoopLast(preds, i, best) ==
    IF i > Len(preds) THEN best
    ELSE MaxLoopLast(preds, i + 1,
            IF preds[i].probability >= best.probability THEN preds[i] ELSE best)

\* max(predictions, key=lambda p: p["probability"]): the running best is
\* replaced only by a strictly greater key.
RECURSIVE MaxLoop(_, _, _)
MaxLoop(preds, i, best) ==
    IF i > Len(preds) THEN best
    ELSE MaxLoop(preds, i + 1,
            IF preds[i].probability > best.probability THEN preds[i] ELSE best)

TopPredictionLast(preds) == MaxLoopLast(preds, 2, preds[1])

TopPrediction(preds) == MaxLoop(preds, 2, preds[1])

\* A codec whose failure is swallowed instead of raised.
ThumbnailErrorSwallowed(data) == None

\* Image.open / img.thumbnail / img.save(JPEG): the error raised, if any.
ThumbnailError(data) ==
    CASE data = "corrupt"  -> Some("UnidentifiedImageError")
      [] data = "rgba_png" -> Some("OSError: cannot write mode RGBA as JPEG")
      [] OTHER             -> None

\* thumb_io.getvalue(): the bytes of the re-encoded thumbnail.
ThumbnailData(data) == <<"JPEG", "q85", "max256", data>>

\* BytesIO(initial_bytes): None gives an empty buffer.
BytesIO(initial) == IF initial.some THEN initial.val ELSE << >>

\* A row whose missing probability is filled with a placeholder 0.
NewRecordPlaceholder(thumbnail, tag, probability, now) ==
    [id |-> Len(store) + 1,
     image_thumbnail |-> thumbnail,
     predicted_tag |-> tag,
     probability |-> IF probability.some THEN probability ELSE Some(0),
     timestamp |-> now]

\* PredictionHistory(...) as inserted by db.session.add + commit: the id is
\* the next primary key, the timestamp the column default at insert.
NewRecord(thumbnail, tag, probability, now) ==
    [id |-> Len(store) + 1,
     image_thumbnail |-> thumbnail,
     predicted_tag |-> tag,
     probability |-> probability,
     timestamp |-> now]

\* predicted_tag is nullable=False: the commit raises without a tag.
CommitFails(tag) == ~tag.some

\* The server's answer to one request: the view function, what it consumed
\* (the request, and the answer of the upstream service once it asked for
\* one), the HTTP status and body, and the outbound services it called.
Response(op, given, status, body, called) ==
    [op |-> op, given |-> given, status |-> status, body |-> body, called |-> called]

ErrorBody(error, details) == [error |-> error, details |-> details]

NoInput == [none |-> TRUE]
NotAsked == [kind |-> "not asked"]

(* ------------------------------- state --------------------------------- *)

Init ==
    /\ openai_client \in BOOLEAN
    /\ store = << >>
    /\ clock = 1
    /\ last = Response("health_check", NoInput, 200, [status |-> "ok"], {})

(* ------------------------------ actions -------------------------------- *)

\* GET /
health_check ==
    /\ last' = Response("health_check", NoInput, 200, [status |-> "ok"], {})
    /\ UNCHANGED <<openai_client, store, clock>>

\* db.session.add(entry); db.session.commit(): one row inserted with the
\* next id and datetime.utcnow() as its timestamp.
Save(thumbnail, tag, probability) ==
    /\ Len(store) < MaxRecords
    /\ \E now \in clock..MaxClock :
          /\ store' = Append(store, NewRecord(thumbnail, tag.val, probability, now))
          /\ clock' = now

\* if "predictions" in results: an empty list passes.
HasPredictionsKeyOnly(results) == results.hasPredictions

\* if results.get("predictions"): a missing key and an empty list are falsy.

HasPredictions(results) == results.hasPredictions /\ results.predictions # << >>

\* POST /predict
predict(upload, vision) ==
    /\ UNCHANGED openai_client
    /\ IF ~upload.hasFile
       THEN /\ last' = Response("predict", [upload |-> upload, answer |-> NotAsked], 400,
                           ErrorBody("No file part in the request", ""), {})
            /\ UNCHANGED <<store, clock>>
       ELSE IF upload.filename = ""
       THEN /\ last' = Response("predict", [upload |-> upload, answer |-> NotAsked], 400,
                           ErrorBody("No image selected for uploading", ""), {})
            /\ UNCHANGED <<store, clock>>
       ELSE LET given == [upload |-> upload, answer |-> vision]
                results == vision.results
                Failed(error, details) ==
                    /\ last' = Response("predict", given, 500,
                                    ErrorBody(error, details), {"custom_vision"})
                    /\ UNCHANGED <<store, clock>>
            IN  IF vision.kind = "http_error"
                THEN Failed("HTTP error", "response text")
                ELSE IF vision.kind # "ok"
                THEN Failed("An unexpected error occurred", vision.kind)
                ELSE IF HasPredictions(results)
                THEN IF results.predictions = << >>
                     THEN Failed("An unexpected error occurred",
                                 "ValueError: max() arg is an empty sequence")
                     ELSE LET top_prediction == TopPrediction(results.predictions)
                              tag == Get(top_prediction, "tagName")
                              probability == Get(top_prediction, "probability")
                              failure == ThumbnailError(upload.data)
                          IN  IF failure.some
                              THEN Failed("An unexpected error occurred", failure.val)
                              ELSE IF CommitFails(tag)
                              THEN Failed("An unexpected error occurred", "IntegrityError")
                              ELSE /\ Save(Some(ThumbnailData(upload.data)), tag, probability)
                                   /\ last' = Response("predict", given, 200, results,
                                                       {"custom_vision"})
                ELSE /\ last' = Response("predict", given, 200, results, {"custom_vision"})
                     /\ UNCHANGED <<store, clock>>

\* The configuration check left out.
NotConfiguredUnchecked(client) == FALSE

\* if not openai_client

NotConfigured(client) == ~client

\* if not data
MissingDescriptionFalsyOnly(data) == data.isNull \/ DOMAIN data.obj = {}

\* if not data or 'description' not in data

MissingDescription(data) ==
    data.isNull \/ DOMAIN data.obj = {} \/ "description" \notin DOMAIN data.obj

\* POST /predict-text
predict_text(data, chat) ==
    /\ UNCHANGED openai_client
    /\ IF NotConfigured(openai_client)
       THEN /\ last' = Response("predict_text", [data |-> data, answer |-> NotAsked], 503,
                           ErrorBody("Azure OpenAI service is not configured on the server.", ""),
                           {})
            /\ UNCHANGED <<store, clock>>
       ELSE IF MissingDescription(data)
       THEN /\ last' = Response("predict_text", [data |-> data, answer |-> NotAsked], 400,
                           ErrorBody("Request must include a 'description' field.", ""), {})
            /\ UNCHANGED <<store, clock>>
       ELSE LET given == [data |-> data, answer |-> chat]
                result_data == chat.result_data
                item == Get(result_data, "item")
                Failed(error) ==
                    /\ last' = Response("predict_text", given, 500,
                                    ErrorBody(error, ""), {"openai"})
                    /\ UNCHANGED <<store, clock>>
            IN  IF chat.kind = "bad_json"
                THEN Failed("AI returned an invalid format.")
                ELSE IF chat.kind # "ok" \/ CommitFails(item)
                THEN Failed("An error occurred while communicating with the AI service.")
                ELSE /\ Save(None, item, None)
                     /\ last' = Response("predict_text", given, 200, result_data, {"openai"})

\* PredictionHistory.query.order_by(PredictionHistory.timestamp.desc()).all():
\* the rows in any order the database may return them in; the ORDER BY
\* constrains the timestamps alone.
Permutations(n) ==
    {p \in [1..n -> 1..n] : \A i, j \in 1..n : p[i] = p[j] => i = j}

OrderByTimestampDesc(rows) ==
    {[i \in 1..Len(rows) |-> rows[p[i]]] : p \in
        {q \in Permutations(Len(rows)) :
            \A i \in 1..(Len(rows) - 1) :
                rows[q[i]].timestamp >= rows[q[i + 1]].timestamp}}

\* One entry of the /history JSON array.
HistoryItem(record) ==
    [id |-> record.id,
     predicted_tag |-> record.predicted_tag,
     probability |-> record.probability,
     timestamp |-> record.timestamp]

\* GET /history
get_history ==
    /\ \E history_records \in OrderByTimestampDesc(store) :
          last' = Response("get_history", NoInput, 200,
                    [i \in 1..Len(history_records) |-> HistoryItem(history_records[i])],
                    {})
    /\ UNCHANGED <<openai_client, store, clock>>

\* PredictionHistory.query.get_or_404(record_id): the row, or NotFound raised.
Lookup(record_id) ==
    IF record_id \in 1..Len(store) THEN Some(store[record_id]) ELSE None

\* GET /history/image/<record_id>
get_history_image(record_id) ==
    /\ LET record == Lookup(record_id)
           given == [record_id |-> record_id]
       IN  IF ~record.some
           THEN \* NotFound is raised inside the try: `except Exception` answers
                last' = Response("get_history_image", given, 500,
                            ErrorBody("Failed to retrieve image", "404 Not Found"), {})
           ELSE last' = Response("get_history_image", given, 200,
                            [mimetype |-> "image/jpeg",
                             data |-> BytesIO(record.val.image_thumbnail)], {})
    /\ UNCHANGED <<openai_client, store, clock>>

\* Record ids a client may ask for: those in the table and one beyond.
RecordIds == 1..(MaxRecords + 1)

Next ==
    \/ health_check
    \/ \E upload \in Uploads, vision \in VisionOutcomes : predict(upload, vision)
    \/ \E data \in JsonBodies, chat \in ChatOutcomes : predict_text(data, chat)
    \/ get_history
    \/ \E record_id \in RecordIds : get_history_image(record_id)

Spec == Init /\ [][Next]_vars

(* ------------------------------ claims --------------------------------- *)

Ids == 1..Len(store)

\* A step that only adds rows leaves every row already stored as it was.
OnlyAppends ==
    /\ Len(store') >= Len(store)
    /\ \A i \in Ids : store'[i] = store[i]

\* The request of a POST /predict reached the classifier and the classifier
\* call failed, or the classifier answered with predictions and Pillow could
\* not turn the upload into a JPEG thumbnail.
ImageFailure(r) ==
    /\ r.op = "predict"
    /\ r.given.upload.hasFile /\ r.given.upload.filename # ""
    /\ \/ r.given.answer.kind \in {"transport", "http_error", "bad_json"}
       \/ /\ r.given.answer.kind = "ok"
          /\ r.given.answer.results.predictions # << >>
          /\ r.given.upload.data \in {"corrupt", "rgba_png"}

\* The request of a POST /predict-text reached the language model and the
\* call failed or its output did not parse.
TextFailure(r) ==
    /\ r.op = "predict_text"
    /\ r.given.answer.kind \in {"transport", "bad_json"}

\* C1: a /predict or /predict-text request whose classifier call fails
\* (non-2xx, transport failure, unparsable output) or whose thumbnail cannot
\* be produced ends in an error response and leaves the table exactly as it
\* was: no record is appended.
C1_FailureAppendsNothing ==
    [][(ImageFailure(last') \/ TextFailure(last'))
         => (last'.status >= 400 /\ store' = store)]_vars

\* A corrupt upload was rejected after a successful classification, with
\* records already in the table.
C1_Witness ==
    /\ ImageFailure(last)
    /\ last.given.answer.kind = "ok"
    /\ last.given.upload.data = "corrupt"
    /\ last.status = 500
    /\ Len(store) >= 1

\* C2: a /predict request whose classifier answer has no "predictions" key
\* or an empty list appends no record and answers 200 with that same body.
C2_EmptyResultNotSaved ==
    [][(/\ last'.op = "predict"
        /\ last'.given.answer.kind = "ok"
        /\ last'.given.answer.results.predictions = << >>)
         => (/\ store' = store
             /\ last'.status = 200
             /\ last'.body = last'.given.answer.results)]_vars

\* An empty prediction list was answered with 200 while the table held a
\* record.
C2_Witness ==
    /\ last.op = "predict"
    /\ last.status = 200
    /\ last.given.answer.results.hasPredictions
    /\ last.body.predictions = << >>
    /\ Len(store) >= 1

\* The first entry of preds that no entry exceeds in probability.
FirstHighest(preds) ==
    preds[CHOOSE i \in 1..Len(preds) :
            /\ \A j \in 1..Len(preds) : preds[j].probability <= preds[i].probability
            /\ \A j \in 1..(i - 1) : preds[j].probability < preds[i].probability]

\* C3: the record a /predict request appends carries the tag and probability
\* of the highest-probability entry of the classifier's list, the first such
\* entry when several tie.
C3_StableMaxSaved ==
    [][(last'.op = "predict" /\ store' # store)
         => LET preds == last'.given.answer.results.predictions
                saved == store'[Len(store')]
            IN  /\ Len(store') = Len(store) + 1
                /\ preds # << >>
                /\ saved.predicted_tag = FirstHighest(preds).tagName
                /\ saved.probability = Some(FirstHighest(preds).probability)]_vars

\* A list whose top probability is shared by a later entry was saved under
\* the earlier entry's tag.
C3_Witness ==
    /\ last.op = "predict"
    /\ last.status = 200
    /\ Len(store) >= 1
    /\ LET preds == last.body.predictions
       IN  /\ Len(preds) >= 2
           /\ \E i, j \in 1..Len(preds) :
                 /\ i < j
                 /\ preds[i].probability = preds[j].probability
                 /\ preds[i].tagName # preds[j].tagName
                 /\ preds[i] = FirstHighest(preds)
                 /\ store[Len(store)].predicted_tag = preds[i].tagName

\* C4: GET /history/image/<id> for a stored text-origin record (no
\* thumbnail) fails with a no-thumbnail error; it never answers 200.
C4_TextRecordHasNoThumbnail ==
    (/\ last.op = "get_history_image"
     /\ last.given.record_id \in Ids
     /\ ~store[last.given.record_id].image_thumbnail.some)
      => (last.status \in {404, 409} /\ last.status # 200)

\* C5: GET /history/image/<id> for an id no record has answers 404, not the
\* generic 500.
C5_UnknownIdNotFound ==
    (last.op = "get_history_image" /\ last.given.record_id \notin Ids)
      => last.status = 404

\* C6: /history lists the records by non-increasing timestamp, and records
\* with equal timestamps by descending id.
C6_HistoryOrder ==
    last.op = "get_history"
      => \A i \in 1..(Len(last.body) - 1) :
            \/ last.body[i].timestamp > last.body[i + 1].timestamp
            \/ /\ last.body[i].timestamp = last.body[i + 1].timestamp
               /\ last.body[i].id > last.body[i + 1].id

\* The request answered by r appended a record.
Appended(r) ==
    /\ r.op \in {"predict", "predict_text"}
    /\ r.status = 200
    /\ r.op = "predict" => r.body.predictions # << >>

\* C7: a /history request right after a request that appended record R lists
\* R first, with R's predicted_tag and probability.
C7_NewestListedFirst ==
    [][(Appended(last) /\ last'.op = "get_history")
         => LET R == store[Len(store)]
            IN  /\ last'.body # << >>
                /\ last'.body[1].id = R.id
                /\ last'.body[1].predicted_tag = R.predicted_tag
                /\ last'.body[1].probability = R.probability]_vars

\* The description of a /predict-text body is absent: the body is null or
\* has no "description" key.
DescriptionAbsent(data) == data.isNull \/ "description" \notin DOMAIN data.obj

DescriptionEmpty(data) ==
    ~DescriptionAbsent(data) /\ data.obj["description"] = ""

C9_UnconfiguredUnavailable ==
    [][(last'.op = "predict_text" /\ ~openai_client)
         => (last'.status = 503 /\ last'.called = {} /\ store' = store)]_vars

\* An unconfigured server refused a well-formed request while the table held
\* a record.
C9_Witness ==
    /\ ~openai_client
    /\ last.op = "predict_text"
    /\ ~DescriptionAbsent(last.given.data)
    /\ ~DescriptionEmpty(last.given.data)
    /\ last.status = 503
    /\ Len(store) >= 1

\* Thumbnail and probability are both present or both absent.
Correlated(record) == record.image_thumbnail.some <=> record.probability.some

\* C10: every stored record has thumbnail and probability both present
\* (image origin) or both absent (text origin), and no request changes or
\* removes a record already stored.
C10_CorrelatedAndImmutable ==
    /\ [](\A i \in Ids : Correlated(store[i]))
    /\ [][OnlyAppends]_vars

\* The table holds an image-origin and a text-origin record.
C10_Witness ==
    /\ \E i \in Ids : store[i].image_thumbnail.some /\ store[i].probability.some
    /\ \E i \in Ids : ~store[i].image_thumbnail.some /\ ~store[i].probability.some

====
